---- MODULE Spec2Model ----
(***************************************************************************)
(* A model of src/streamlit_app.py: the Guitar Pro -> ABC transcoder       *)
(* process_guitar_pro with its helpers midi_to_abc and identify_chord, and  *)
(* the Streamlit script around it that keeps the chat session.             *)
(*                                                                         *)
(* Python values are modelled as follows.                                  *)
(*   - a str is a TLA+ string, built with \o as the code builds it with    *)
(*     f-strings and +; the result of midi_to_abc is kept as the sequence  *)
(*     of its characters so that it can be parsed back;                    *)
(*   - None for a str-valued result is the string None; an optional        *)
(*     number (track.channel.instrument) is <<>> or <<n>>;                 *)
(*   - a float that is a ratio of small integers (length_multiplier) is    *)
(*     the pair <<numerator, denominator>>, which is exact for every       *)
(*     value the code computes from the duration codes modelled here.      *)
(***************************************************************************)
EXTENDS Integers, Sequences, FiniteSets, TLC

VARIABLES
    pc,            \* position in the code of the specification being run
    key_info,      \* song.key as the parser gives it
    key_text,      \* the resolved key, as its characters
    raised,        \* TRUE once an exception has left process_guitar_pro
    song,          \* the song's metadata, tempo and first time signature
    time_sig,      \* <<num, den>>
    output,        \* the lines emitted so far
    tune_index,    \* the X: index of the next admitted track
    tracks_seen,   \* the tracks of song.tracks enumerated so far
    measures_seen, \* for each of them, its measures enumerated so far
    track,         \* the track being transcribed
    instrument,    \* "Guitar" or "Bass" for the admitted track
    measure,       \* the measure being transcribed
    measure_count, \* measures of the track enumerated so far
    bar_content,   \* the tokens collected for the measure
    beat,          \* the beat being transcribed
    repr,          \* "z", chord_repr or note_repr: the token before its length
    pitches,       \* identify_chord's argument / the chord branch's list
    chord_label,   \* identify_chord's result
    pitch,         \* midi_to_abc's argument / the single note's pitch
    abc,           \* midi_to_abc's result, as its characters
    openai_api_key,  \* TRUE when the sidebar's key field is not empty
    uploaded_file,   \* the file in the uploader, NoFile for none
    messages,        \* st.session_state.messages
    abc_notation,    \* st.session_state.abc_notation
    file_processed,  \* st.session_state.file_processed
    show_abc,        \* st.session_state.show_abc
    event,           \* the interaction that started the last run of the script
    full_response,   \* the reply collected from the stream so far
    chunks_read,     \* chunks of the stream consumed so far
    api_messages     \* the messages handed to the last completions call

keyVars     == <<key_info, key_text, raised>>
songVars    == <<song, time_sig>>
outVars     == <<output, tune_index>>
trackVars   == <<tracks_seen, measures_seen, track, instrument>>
measureVars == <<measure, measure_count, bar_content>>
beatVars    == <<beat, repr>>
chordVars   == <<pitches, chord_label>>
pitchVars   == <<pitch, abc>>
sessionVars == <<messages, abc_notation, file_processed, show_abc>>
widgetVars  == <<openai_api_key, uploaded_file, event>>
streamVars  == <<full_response, chunks_read, api_messages>>
chatVars    == <<sessionVars, widgetVars, streamVars>>
vars == <<pc, keyVars, songVars, outVars, trackVars, measureVars, beatVars,
          chordVars, pitchVars, chatVars>>

None == "None"

(***************************************************************************)
(* Bounds of the model.                                                    *)
(***************************************************************************)
MaxNotes == 4      \* longest list of pitches handed to identify_chord
PitchSpan == 12    \* the pitches handed to identify_chord are 60..60+PitchSpan
MaxPitch == 127    \* midi_to_abc is applied to 0..MaxPitch
MaxBeatNotes == 3  \* most notes in one beat
MaxSharps == 8     \* key signatures of -MaxSharps..MaxSharps sharps are tried
MaxProgram == 127  \* instrument programs 0..MaxProgram are tried
MaxStrings == 7    \* tracks of 0..MaxStrings strings are tried
MaxBeats == 33     \* most beats in one measure
MaxTracks == 2     \* most tracks in a song
MaxMeasures == 1   \* most measures in a track
MaxTuneMeasures == 2  \* most measures in a track of SpecTune
MaxExchanges == 2  \* most prompts entered in one history
MaxChunks == 2     \* most chunks in one streamed reply
MaxAlternative == 2  \* alternative-ending numbers 0..MaxAlternative are tried
MaxClosings == 2   \* repeat counts 0..MaxClosings are tried

ChordPitches == 60..(60 + PitchSpan)

(***************************************************************************)
(* Helpers for Python's sorted() and set().                                *)
(***************************************************************************)
Range(s) == {s[i] : i \in 1..Len(s)}

Min(S) == CHOOSE x \in S : \A y \in S : x <= y

RECURSIVE SortedSeq(_)
\* sorted(S) of a finite set of integers
SortedSeq(S) ==
    IF S = {} THEN <<>>
    ELSE LET m == Min(S) IN <<m>> \o SortedSeq(S \ {m})

(***************************************************************************)
(* identify_chord                                                          *)
(***************************************************************************)
name_map == [i \in 0..11 |->
    CASE i = 0 -> "C"   [] i = 1 -> "C#" [] i = 2 -> "D"   [] i = 3 -> "D#"
      [] i = 4 -> "E"   [] i = 5 -> "F"  [] i = 6 -> "F#"  [] i = 7 -> "G"
      [] i = 8 -> "G#"  [] i = 9 -> "A"  [] i = 10 -> "A#" [] i = 11 -> "B"]

\* the pitch classes in order of first appearance, lowest not first
pitch_classes_first_note_first(ps) ==
    IF ps = <<>> THEN <<>>
    ELSE <<ps[1] % 12>> \o SortedSeq({p % 12 : p \in Range(ps)} \ {ps[1] % 12})

\* line 126: sorted({p % 12 for p in pitches})
unique_pitch_classes(ps) == SortedSeq({p % 12 : p \in Range(ps)})

\* lines 130-131: the intervals from root = pcs[0], sorted
relative_pitches(pcs) == SortedSeq({(x - pcs[1]) % 12 : x \in Range(pcs)})

\* lines 136-173: the chord table; rel[1] = 0 is the root itself
chord_suffix(rel) ==
    LET intervals == Tail(rel)
    IN  IF Len(rel) = 2 THEN (IF rel[2] = 7 THEN "5" ELSE None)
        ELSE IF Len(rel) = 3 /\ intervals = <<4, 7>> THEN "maj"
        ELSE IF Len(rel) = 3 /\ intervals = <<3, 7>> THEN "min"
        ELSE IF Len(rel) = 3 /\ intervals = <<3, 6>> THEN "dim"
        ELSE IF Len(rel) = 3 /\ intervals = <<4, 8>> THEN "aug"
        ELSE IF Len(rel) = 3 /\ intervals = <<2, 7>> THEN "sus2"
        ELSE IF Len(rel) = 3 /\ intervals = <<5, 7>> THEN "sus4"
        ELSE IF Len(rel) = 4 /\ intervals = <<4, 7, 10>> THEN "7"
        ELSE IF Len(rel) = 4 /\ intervals = <<3, 7, 10>> THEN "min7"
        ELSE IF Len(rel) = 4 /\ intervals = <<4, 7, 11>> THEN "maj7"
        ELSE IF Len(rel) = 4 /\ intervals = <<3, 6, 10>> THEN "min7b5"
        ELSE IF Len(rel) = 4 /\ intervals = <<3, 6, 9>> THEN "dim7"
        ELSE IF Len(rel) = 4 /\ intervals = <<4, 7, 9>> THEN "6"
        ELSE IF Len(rel) = 4 /\ intervals = <<3, 7, 9>> THEN "min6"
        ELSE None

identify_chord(ps) ==
    LET pcs == unique_pitch_classes(ps)
    IN  IF pcs = <<>> THEN None
        ELSE
        LET rel       == relative_pitches(pcs)
            root_name == name_map[pcs[1]]
            suffix    == chord_suffix(rel)
        IN  IF suffix = None THEN None ELSE root_name \o suffix

(***************************************************************************)
(* Python str helpers: "".join, str(int), str.strip, upper, lower.         *)
(***************************************************************************)
RECURSIVE Str(_)
\* "".join(cs) of a sequence of strings
Str(cs) == IF cs = <<>> THEN "" ELSE Head(cs) \o Str(Tail(cs))

Digit == <<"0", "1", "2", "3", "4", "5", "6", "7", "8", "9">>

RECURSIVE IntStr(_)
\* str(n) of an integer
IntStr(n) ==
    IF n < 0 THEN "-" \o IntStr(-n)
    ELSE IF n < 10 THEN Digit[n + 1]
    ELSE IntStr(n \div 10) \o Digit[(n % 10) + 1]

RECURSIVE Join(_, _)
\* sep.join(strs)
Join(strs, sep) ==
    IF strs = <<>> THEN ""
    ELSE IF Len(strs) = 1 THEN strs[1]
    ELSE strs[1] \o sep \o Join(Tail(strs), sep)

UpperAlphabet == <<"A", "B", "C", "D", "E", "F", "G", "H", "I", "J", "K", "L", "M", "N", "O", "P", "Q", "R", "S", "T", "U", "V", "W", "X", "Y", "Z">>
LowerAlphabet == <<"a", "b", "c", "d", "e", "f", "g", "h", "i", "j", "k", "l", "m", "n", "o", "p", "q", "r", "s", "t", "u", "v", "w", "x", "y", "z">>

LowerChar(c) ==
    IF \E i \in 1..26 : UpperAlphabet[i] = c
        THEN LowerAlphabet[CHOOSE i \in 1..26 : UpperAlphabet[i] = c]
        ELSE c

\* cs.lower() of a sequence of characters
Lower(cs) == [i \in 1..Len(cs) |-> LowerChar(cs[i])]

RECURSIVE LStrip(_)
LStrip(cs) == IF cs # <<>> /\ Head(cs) = " " THEN LStrip(Tail(cs)) ELSE cs

RECURSIVE RStrip(_)
RStrip(cs) ==
    IF cs # <<>> /\ cs[Len(cs)] = " " THEN RStrip(SubSeq(cs, 1, Len(cs) - 1)) ELSE cs

\* cs.strip() of a sequence of characters
Strip(cs) == RStrip(LStrip(cs))

Rep(c, n) == [i \in 1..n |-> c]

upper(c) ==
    CASE c \in {"c", "C"} -> "C" [] c \in {"d", "D"} -> "D" [] c \in {"e", "E"} -> "E"
      [] c \in {"f", "F"} -> "F" [] c \in {"g", "G"} -> "G" [] c \in {"a", "A"} -> "A"
      [] c \in {"b", "B"} -> "B"

lower(c) ==
    CASE c \in {"c", "C"} -> "c" [] c \in {"d", "D"} -> "d" [] c \in {"e", "E"} -> "e"
      [] c \in {"f", "F"} -> "f" [] c \in {"g", "G"} -> "g" [] c \in {"a", "A"} -> "a"
      [] c \in {"b", "B"} -> "b"

(***************************************************************************)
(* midi_to_abc                                                             *)
(***************************************************************************)
note_names == << <<"C">>, <<"^", "C">>, <<"D">>, <<"^", "D">>, <<"E">>, <<"F">>,
                 <<"^", "F">>, <<"G">>, <<"^", "G">>, <<"A">>, <<"^", "A">>, <<"B">> >>

base_octave == 4

\* lines 112-120 with "lowercase for 5 and above" read as "above 5"
octave_letter_upper_through_5(letter, octave) ==
    IF octave >= base_octave THEN
        (IF octave <= base_octave + 1 THEN <<upper(letter)>> ELSE <<lower(letter)>>)
        \o (IF octave > base_octave + 1 THEN Rep("'", octave - 5) ELSE <<>>)
    ELSE
        <<upper(letter)>> \o Rep(",", base_octave - octave)

\* lines 112-120: the letter's case and its octave marks
octave_letter(letter, octave) ==
    IF octave >= base_octave THEN
        (IF octave = base_octave THEN <<upper(letter)>> ELSE <<lower(letter)>>)
        \o (IF octave > base_octave + 1 THEN Rep("'", octave - 5) ELSE <<>>)
    ELSE
        <<upper(letter)>> \o Rep(",", base_octave - octave)

midi_to_abc(p) ==
    LET name       == note_names[(p % 12) + 1]
        octave     == (p \div 12) - 1
        sharp      == name[1] = "^"
        letter     == IF sharp THEN name[2] ELSE name[1]
        abc_letter == octave_letter(letter, octave)
    IN  IF sharp THEN <<"^">> \o abc_letter ELSE abc_letter

(***************************************************************************)
(* The length of a beat: three copies in the code, for a rest, a chord and *)
(* a single note.  length_multiplier is the float 16/dur (times 1.5), kept *)
(* as <<numerator, denominator>>.                                          *)
(***************************************************************************)
NoDuration == [present |-> FALSE, value |-> 4, isDotted |-> FALSE]

\* the multiplier with the dot ignored
length_multiplier_undotted(duration) ==
    LET dur == IF duration.present THEN duration.value ELSE 4
    IN  IF dur # 0 THEN <<16, dur>> ELSE <<16, 1>>

\* lines 301-305, 343-346, 404-407
length_multiplier(duration) ==
    LET dur == IF duration.present THEN duration.value ELSE 4
        m   == IF dur # 0 THEN <<16, dur>> ELSE <<16, 1>>
    IN  IF duration.present /\ duration.isDotted THEN <<m[1] * 3, m[2] * 2>> ELSE m

\* lines 307-312
rest_token(duration) ==
    LET m == length_multiplier(duration)
    IN  IF m[1] = m[2] THEN "z"
        ELSE IF m[1] < m[2] THEN "z/" \o IntStr(m[2] \div m[1])
        ELSE "z" \o IntStr(m[1] \div m[2])

\* lines 348-353
chord_final_repr(chord_repr, duration) ==
    LET m == length_multiplier(duration)
    IN  IF m[1] = m[2] THEN chord_repr
        ELSE IF m[1] < m[2] THEN chord_repr \o "/" \o IntStr(m[2] \div m[1])
        ELSE chord_repr \o IntStr(m[1] \div m[2])

\* lines 409-414
note_final_repr(note_repr, duration) ==
    LET m == length_multiplier(duration)
    IN  IF m[1] = m[2] THEN note_repr
        ELSE IF m[1] < m[2] THEN note_repr \o "/" \o IntStr(m[2] \div m[1])
        ELSE note_repr \o IntStr(m[1] \div m[2])

(***************************************************************************)
(* One beat of the first voice (lines 297-416).  A track's strings are the *)
(* open pitches track.strings[i].value, string 1 first; a note is          *)
(* [string, value, effect]; its effect holds the flags lines 368-387 read. *)
(***************************************************************************)
RECURSIVE InsertSorted(_, _)
InsertSorted(x, s) ==
    IF s = <<>> THEN <<x>>
    ELSE IF x <= Head(s) THEN <<x>> \o s
    ELSE <<Head(s)>> \o InsertSorted(x, Tail(s))

RECURSIVE sorted(_)
\* sorted(list) of a list of integers, duplicates kept
sorted(s) == IF s = <<>> THEN <<>> ELSE InsertSorted(Head(s), sorted(Tail(s)))

RECURSIVE chord_pitches_open_zero(_, _)
\* the chord's pitches had line 327 the fallback of line 362: open pitch 0
chord_pitches_open_zero(strings, notes) ==
    IF notes = <<>> THEN <<>>
    ELSE LET note == Head(notes)
             open_pitch == IF note.string <= Len(strings) THEN strings[note.string] ELSE 0
         IN  <<open_pitch + note.value>> \o chord_pitches_open_zero(strings, Tail(notes))

RECURSIVE chord_pitches(_, _)
\* lines 325-330
chord_pitches(strings, notes) ==
    IF notes = <<>> THEN <<>>
    ELSE LET note == Head(notes)
         IN  (IF note.string <= Len(strings)
                 THEN <<strings[note.string] + note.value>>
                 ELSE <<>>)
             \o chord_pitches(strings, Tail(notes))

\* lines 362-363
note_pitch(strings, note) ==
    LET open_pitch == IF note.string <= Len(strings) THEN strings[note.string] ELSE 0
    IN  open_pitch + note.value

RECURSIVE chord_notes(_)
\* line 339, given sorted(pitches)
chord_notes(ps) ==
    IF ps = <<>> THEN "" ELSE Str(midi_to_abc(Head(ps))) \o chord_notes(Tail(ps))

\* lines 332-340
chord_repr_of(ps) ==
    LET label == identify_chord(ps)
    IN  IF label # None THEN "[" \o label \o "]"
        ELSE "[" \o chord_notes(sorted(ps)) \o "]"

\* lines 367-396
note_effects(note_effect, beat_effect) ==
    LET e1 == (IF note_effect.bend THEN <<"b">> ELSE <<>>)
              \o (IF note_effect.hammer
                     THEN <<IF note_effect.isHammerOn THEN "ho" ELSE "po">>
                     ELSE <<>>)
              \o (IF note_effect.harmonic THEN <<"h">> ELSE <<>>)
              \o (IF note_effect.slides THEN <<"s">> ELSE <<>>)
              \o (IF note_effect.vibrato THEN <<"v">> ELSE <<>>)
              \o (IF note_effect.palmMute THEN <<"pm">> ELSE <<>>)
              \o (IF note_effect.staccato THEN <<"st">> ELSE <<>>)
              \o (IF note_effect.tapping THEN <<"t">> ELSE <<>>)
              \o (IF note_effect.tremoloPicking THEN <<"tr">> ELSE <<>>)
        e2 == IF (beat_effect.tremoloBar \/ beat_effect.slide) /\ "s" \notin Range(e1)
                 THEN e1 \o <<"s">> ELSE e1
    IN  IF beat_effect.vibrato /\ "v" \notin Range(e2) THEN e2 \o <<"v">> ELSE e2

RECURSIVE effect_markers(_)
\* lines 399-401
effect_markers(effects) ==
    IF effects = <<>> THEN ""
    ELSE "(" \o Head(effects) \o ")" \o effect_markers(Tail(effects))

\* lines 359-401: note_repr before its length
note_repr_of(strings, b) ==
    Str(midi_to_abc(note_pitch(strings, b.notes[1])))
    \o effect_markers(note_effects(b.notes[1].effect, b.effect))

\* lines 316-320: the beat's text, emitted as a token of its own
beat_text_tokens(b) ==
    IF b.text # <<>> /\ Strip(b.text) # <<>>
        THEN << "\"(" \o Str(b.text) \o ")\"" >>
        ELSE <<>>

\* lines 297-416: the tokens one beat appends to bar_content
beat_tokens(strings, b) ==
    IF b.notes = <<>> THEN <<rest_token(b.duration)>>
    ELSE beat_text_tokens(b) \o
         (IF Len(b.notes) > 1
             THEN <<chord_final_repr(chord_repr_of(chord_pitches(strings, b.notes)),
                                     b.duration)>>
             ELSE <<note_final_repr(note_repr_of(strings, b), b.duration)>>)

(***************************************************************************)
(* Key resolution (lines 15-45).  key_info is                              *)
(*   [kind |-> "absent"]                       no key, or a falsy one;     *)
(*   [kind |-> "pair", sharps, is_minor]       a subscriptable pair;       *)
(*   [kind |-> "enum", sharps, is_minor]       an object whose .value is   *)
(*                                             such a pair;                *)
(*   [kind |-> "name", name]                   an object with no value,    *)
(*                                             known by its str().         *)
(* key_text is kept as its characters: line 98 reads its last one.         *)
(***************************************************************************)
major_map == [s \in -7..7 |->
    CASE s = 0 -> <<"C">>
      [] s = 1 -> <<"G">>
      [] s = 2 -> <<"D">>
      [] s = 3 -> <<"A">>
      [] s = 4 -> <<"E">>
      [] s = 5 -> <<"B">>
      [] s = 6 -> <<"F", "#">>
      [] s = 7 -> <<"C", "#">>
      [] s = -1 -> <<"F">>
      [] s = -2 -> <<"B", "b">>
      [] s = -3 -> <<"E", "b">>
      [] s = -4 -> <<"A", "b">>
      [] s = -5 -> <<"D", "b">>
      [] s = -6 -> <<"G", "b">>
      [] s = -7 -> <<"C", "b">>]

minor_map == [s \in -7..7 |->
    CASE s = 0 -> <<"A", "m">>
      [] s = 1 -> <<"E", "m">>
      [] s = 2 -> <<"B", "m">>
      [] s = 3 -> <<"F", "#", "m">>
      [] s = 4 -> <<"C", "#", "m">>
      [] s = 5 -> <<"G", "#", "m">>
      [] s = 6 -> <<"D", "#", "m">>
      [] s = 7 -> <<"A", "#", "m">>
      [] s = -1 -> <<"D", "m">>
      [] s = -2 -> <<"G", "m">>
      [] s = -3 -> <<"C", "m">>
      [] s = -4 -> <<"F", "m">>
      [] s = -5 -> <<"B", "b", "m">>
      [] s = -6 -> <<"E", "b", "m">>
      [] s = -7 -> <<"A", "b", "m">>]

\* line 35
note_name_list == <<<<"C">>,
                    <<"G">>,
                    <<"D">>,
                    <<"A">>,
                    <<"E">>,
                    <<"B">>,
                    <<"F", "#">>,
                    <<"C", "#">>,
                    <<"F">>,
                    <<"B", "b">>,
                    <<"E", "b">>,
                    <<"A", "b">>,
                    <<"D", "b">>,
                    <<"G", "b">>,
                    <<"C", "b">>>>

\* sub in s, for str
Contains(s, sub) ==
    \E i \in 0..(Len(s) - Len(sub)) : SubSeq(s, i + 1, i + Len(sub)) = sub

RECURSIVE first_note_name(_, _, _)
\* lines 35-38: the first noteName of the list found in name, else the default
first_note_name(names, name, default) ==
    IF names = <<>> THEN default
    ELSE IF Contains(name, Head(names)) THEN Head(names)
    ELSE first_note_name(Tail(names), name, default)

\* line 45 with the mode ignored
map_key_major_only(sharps, is_minor) ==
    IF sharps \in DOMAIN major_map
        THEN [raised |-> FALSE, key_text |-> major_map[sharps]]
        ELSE [raised |-> TRUE, key_text |-> <<"C">>]

\* lines 41-45: a sharps count that is no key of the map raises KeyError
map_key(sharps, is_minor) ==
    IF is_minor THEN
        (IF sharps \in DOMAIN minor_map
            THEN [raised |-> FALSE, key_text |-> minor_map[sharps]]
            ELSE [raised |-> TRUE, key_text |-> <<"C">>])
    ELSE
        (IF sharps \in DOMAIN major_map
            THEN [raised |-> FALSE, key_text |-> major_map[sharps]]
            ELSE [raised |-> TRUE, key_text |-> <<"C">>])

\* lines 20-45
resolve_key(k) ==
    IF k.kind = "absent" THEN [raised |-> FALSE, key_text |-> <<"C">>]
    ELSE IF k.kind \in {"pair", "enum"} THEN map_key(k.sharps, k.is_minor)
    ELSE [raised |-> FALSE,
          key_text |-> first_note_name(note_name_list, k.name, <<"C">>)]

\* lines 98-101
key_line(kt) ==
    IF kt[Len(kt)] = "m"
        THEN "Key: " \o Str(SubSeq(kt, 1, Len(kt) - 1)) \o " minor"
        ELSE "Key: " \o Str(kt) \o " major"

(***************************************************************************)
(* The song's preamble (lines 47-102).                                     *)
(***************************************************************************)
\* lines 48-53: song.timeSignature is <<>> when the song has no first
\* measure, else <<[numerator, denominator]>> of its header
resolve_time_signature(sg) ==
    IF sg.timeSignature # <<>>
        THEN <<sg.timeSignature[1].numerator, sg.timeSignature[1].denominator>>
        ELSE <<4, 4>>

\* lines 69-78
notation_legend ==
    << "Custom ABC notation enhancements:",
       "- Chords are labeled in brackets (e.g. [C5] for C power chord)",
       "- Guitar techniques are noted with separate parentheses:",
       "  - **(b)** for a pitch bend",
       "  - **(h)** for a harmonic",
       "  - **(s)** for a slide between notes",
       "  - **(ho)** for a hammer-on",
       "  - **(po)** for a pull-off",
       "- Song sections are marked with: {SECTION: name}",
       "- Lyrics are included as: \"Lyric text\"\n" >>

\* lines 81-102
song_metadata_lines(sg, kt, ts) ==
    << "Title: " \o sg.title >>
    \o (IF sg.artist # "Unknown Artist" THEN << "Artist: " \o sg.artist >> ELSE <<>>)
    \o (IF sg.album # "Unknown Album" THEN << "Album: " \o sg.album >> ELSE <<>>)
    \o (IF sg.composer # "Unknown Composer"
           THEN << "Composer: " \o sg.composer >> ELSE <<>>)
    \o (IF sg.copyright # "" THEN << "Copyright: " \o sg.copyright >> ELSE <<>>)
    \o (IF sg.notice # "" THEN << "Notes: " \o sg.notice >> ELSE <<>>)
    \o (IF sg.instructions # ""
           THEN << "Instructions: " \o sg.instructions >> ELSE <<>>)
    \o (IF sg.subtitles # <<>>
           THEN << "Subtitles: " \o Join(sg.subtitles, " / ") >> ELSE <<>>)
    \o << "Tempo: " \o IntStr(sg.tempo) \o " BPM" >>
    \o << key_line(kt) >>
    \o << "Time Signature: " \o IntStr(ts[1]) \o "/" \o IntStr(ts[2]) \o "\n" >>

(***************************************************************************)
(* A track: admission (lines 178-190) and header (lines 191-225).          *)
(***************************************************************************)
\* line 184
is_guitar(t) ==
    \/ (t.instrument # <<>> /\ 24 <= t.instrument[1] /\ t.instrument[1] <= 31)
    \/ Len(t.strings) >= 6

\* line 185 with the string-count fallback forgotten
is_bass_by_program_only(t) ==
    t.instrument # <<>> /\ 32 <= t.instrument[1] /\ t.instrument[1] <= 39

\* line 185
is_bass(t) ==
    \/ (t.instrument # <<>> /\ 32 <= t.instrument[1] /\ t.instrument[1] <= 39)
    \/ (4 <= Len(t.strings) /\ Len(t.strings) <= 5)

\* line 190
instrument_of(t) == IF is_bass(t) THEN "Bass" ELSE "Guitar"

\* line 191
track_name(t) == IF t.name # "" THEN t.name ELSE "Track " \o IntStr(t.number)

RECURSIVE Reverse(_)
Reverse(sq) == IF sq = <<>> THEN <<>> ELSE Reverse(Tail(sq)) \o <<Head(sq)>>

\* lines 206-209
tuning_line(t) ==
    LET tuning_pitches == Reverse(sorted(t.strings))
        tuning_names   == [i \in 1..Len(tuning_pitches) |->
                              name_map[tuning_pitches[i] % 12]
                              \o IntStr((tuning_pitches[i] \div 12) - 1)]
    IN  "Tuning: " \o Join(tuning_names, " ")

\* lines 199-225
track_header(t, sg, kt, ts, index) ==
    << "Track: " \o track_name(t) \o " (" \o instrument_of(t) \o ")" >>
    \o (IF t.description # "" THEN << "Description: " \o t.description >> ELSE <<>>)
    \o (IF t.comments # "" THEN << "Comments: " \o t.comments >> ELSE <<>>)
    \o << tuning_line(t) >>
    \o << "ABC Notation:" >>
    \o << "X:" \o IntStr(index) >>
    \o << "T:" \o sg.title >>
    \o [i \in 1..Len(sg.subtitles) |-> "T:" \o sg.subtitles[i]]
    \o << "C:" \o (IF sg.composer # "Unknown Composer" THEN sg.composer ELSE "") >>
    \o << "A:" \o (IF sg.artist # "Unknown Artist" THEN sg.artist ELSE "") >>
    \o << "Z:" \o (IF sg.album # "Unknown Album" THEN sg.album ELSE "") >>
    \o << "N:" \o track_name(t) \o " (" \o instrument_of(t) \o ")" >>
    \o << "M:" \o IntStr(ts[1]) \o "/" \o IntStr(ts[2]) >>
    \o << "L:1/16" >>
    \o << "Q:1/4=" \o IntStr(sg.tempo) >>
    \o << "K:" \o Str(kt) >>

(***************************************************************************)
(* A measure: header tags (lines 234-288), beats (lines 294-416) and bar   *)
(* lines (lines 424-432).  A measure header is                             *)
(*   [marker, texts, repeatAlternative, repeat]: the marker's title ("" for *)
(*   none), the values of its text, direction, annotation and comment      *)
(*   attributes as characters (<<>> for none), the alternative-ending      *)
(*   number (0 for none), and repeat = [present, closings, close, open].   *)
(***************************************************************************)
\* lines 252-261
section_keywords ==
    <<
       [type_name |-> "VERSE",
        keywords |-> <<<<"v", "e", "r", "s", "e">>,
                      <<"v", "1">>,
                      <<"v", "2">>,
                      <<"v", "3">>,
                      <<"v", "4">>,
                      <<"v", "e", "r", "s", "e", " ", "1">>,
                      <<"v", "e", "r", "s", "e", " ", "2">>>>],
       [type_name |-> "CHORUS",
        keywords |-> <<<<"c", "h", "o", "r", "u", "s">>,
                      <<"c", "h">>,
                      <<"c", "h", "o", "r">>,
                      <<"r", "e", "f", "r", "a", "i", "n">>>>],
       [type_name |-> "BRIDGE",
        keywords |-> <<<<"b", "r", "i", "d", "g", "e">>,
                      <<"b", "r">>,
                      <<"m", "i", "d", "d", "l", "e", " ", "e", "i", "g", "h", "t">>>>],
       [type_name |-> "INTRO",
        keywords |-> <<<<"i", "n", "t", "r", "o">>,
                      <<"i", "n", "t", "r", "o", "d", "u", "c", "t", "i", "o", "n">>>>],
       [type_name |-> "OUTRO",
        keywords |-> <<<<"o", "u", "t", "r", "o">>,
                      <<"e", "n", "d", "i", "n", "g">>,
                      <<"c", "o", "d", "a">>,
                      <<"e", "n", "d">>>>],
       [type_name |-> "SOLO",
        keywords |-> <<<<"s", "o", "l", "o">>,
                      <<"i", "n", "s", "t", "r", "u", "m", "e", "n", "t", "a", "l">>,
                      <<"i", "n", "s", "t">>,
                      <<"g", "u", "i", "t", "a", "r", " ", "s", "o", "l", "o">>,
                      <<"b", "a", "s", "s", " ", "s", "o", "l", "o">>>>],
       [type_name |-> "PRE-CHORUS",
        keywords |-> <<<<"p", "r", "e", "-", "c", "h", "o", "r", "u", "s">>,
                      <<"p", "r", "e", " ", "c", "h", "o", "r", "u", "s">>,
                      <<"p", "r", "e", "c", "h", "o", "r", "u", "s">>,
                      <<"p", "r", "e", "-", "v", "e", "r", "s", "e">>>>],
       [type_name |-> "INTERLUDE",
        keywords |-> <<<<"i", "n", "t", "e", "r", "l", "u", "d", "e">>,
                      <<"b", "r", "e", "a", "k">>,
                      <<"i", "n", "t", "e", "r", "m", "e", "z", "z", "o">>>>]
    >>

RECURSIVE section_type_of(_, _)
\* lines 263-267
section_type_of(table, section_text) ==
    IF table = <<>> THEN None
    ELSE IF \E i \in 1..Len(Head(table).keywords) :
               Contains(Lower(section_text), Lower(Head(table).keywords[i]))
        THEN Head(table).type_name
    ELSE section_type_of(Tail(table), section_text)

\* lines 235-241
marker_tags(h) ==
    IF h.marker # "" THEN << "{SECTION: " \o h.marker \o "}" >> ELSE <<>>

RECURSIVE text_tags(_)
\* lines 244-274: the first attribute with text after stripping decides
text_tags(texts) ==
    IF texts = <<>> THEN <<>>
    ELSE IF Head(texts) # <<>> /\ Strip(Head(texts)) # <<>> THEN
        LET section_text == Strip(Head(texts))
            section_type == section_type_of(section_keywords, section_text)
        IN  IF section_type # None
                THEN << "{SECTION: " \o section_type \o " - " \o Str(section_text) \o "}" >>
                ELSE << "{TEXT: " \o Str(section_text) \o "}" >>
    ELSE text_tags(Tail(texts))

\* lines 277-279
alternative_tags(h) ==
    IF h.repeatAlternative # 0
        THEN << "{ALTERNATIVE: " \o IntStr(h.repeatAlternative) \o "}" >>
        ELSE <<>>

\* lines 282-287 as three separate tests
repeat_tags_all_that_apply(h) ==
    IF h.repeat.present THEN
        (IF h.repeat.closings # 0
            THEN << "{REPEAT: " \o IntStr(h.repeat.closings) \o " times}" >>
            ELSE <<>>)
        \o (IF h.repeat.close THEN << "{REPEAT END}" >> ELSE <<>>)
        \o (IF h.repeat.open THEN << "{REPEAT START}" >> ELSE <<>>)
    ELSE <<>>

\* lines 281-288
repeat_tags(h) ==
    IF h.repeat.present THEN
        (IF h.repeat.closings # 0
            THEN << "{REPEAT: " \o IntStr(h.repeat.closings) \o " times}" >>
         ELSE IF h.repeat.close THEN << "{REPEAT END}" >>
         ELSE IF h.repeat.open THEN << "{REPEAT START}" >>
         ELSE <<>>)
    ELSE <<>>

\* lines 234-288
header_tags(h) ==
    marker_tags(h) \o text_tags(h.texts) \o alternative_tags(h) \o repeat_tags(h)

RECURSIVE voice_tokens(_, _)
\* lines 295-416: bar_content after the beats of the voice
voice_tokens(strings, beats) ==
    IF beats = <<>> THEN <<>>
    ELSE beat_tokens(strings, Head(beats)) \o voice_tokens(strings, Tail(beats))

RECURSIVE chunks_of(_, _)
\* line 425: [bar_content[i:i+size] for i in range(0, len(bar_content), size)]
chunks_of(tokens, size) ==
    IF tokens = <<>> THEN <<>>
    ELSE IF Len(tokens) <= size THEN <<tokens>>
    ELSE <<SubSeq(tokens, 1, size)>>
         \o chunks_of(SubSeq(tokens, size + 1, Len(tokens)), size)

\* a long measure split after every 15 tokens
bar_lines_chunks_of_15(tokens) ==
    IF Len(tokens) > 16 THEN
        LET chunks == chunks_of(tokens, 15)
        IN  [i \in 1..Len(chunks) |->
                IF i = Len(chunks)
                    THEN Join(chunks[i], " ") \o " |"
                    ELSE Join(chunks[i], " ") \o " \\"]
    ELSE << Join(tokens, " ") \o " |" >>

\* lines 424-432
bar_lines(tokens) ==
    IF Len(tokens) > 16 THEN
        LET chunks == chunks_of(tokens, 16)
        IN  [i \in 1..Len(chunks) |->
                IF i = Len(chunks)
                    THEN Join(chunks[i], " ") \o " |"
                    ELSE Join(chunks[i], " ") \o " \\"]
    ELSE << Join(tokens, " ") \o " |" >>

\* lines 231-432: the lines one measure appends to the output
measure_lines(strings, m) ==
    header_tags(m.header)
    \o (IF m.voices = <<>> THEN <<>>
        ELSE bar_lines(voice_tokens(strings, m.voices[1])))

(***************************************************************************)
(* The inputs the specifications draw from.                                *)
(***************************************************************************)
DurationCodes == {0, 1, 2, 4, 8, 16, 32, 64}

Durations ==
    {NoDuration} \cup
    {[present |-> TRUE, value |-> d, isDotted |-> f] : d \in DurationCodes, f \in BOOLEAN}

NoEffect ==
    [bend |-> FALSE, hammer |-> FALSE, isHammerOn |-> TRUE, harmonic |-> FALSE,
     slides |-> FALSE, vibrato |-> FALSE, palmMute |-> FALSE, staccato |-> FALSE,
     tapping |-> FALSE, tremoloPicking |-> FALSE]

NoteEffects ==
    {NoEffect,
     [NoEffect EXCEPT !.hammer = TRUE, !.isHammerOn = FALSE, !.slides = TRUE],
     [NoEffect EXCEPT !.bend = TRUE, !.hammer = TRUE, !.harmonic = TRUE,
                      !.vibrato = TRUE, !.palmMute = TRUE, !.staccato = TRUE,
                      !.tapping = TRUE, !.tremoloPicking = TRUE]}

NoBeatEffect == [tremoloBar |-> FALSE, slide |-> FALSE, vibrato |-> FALSE]

BeatEffects == {NoBeatEffect, [tremoloBar |-> FALSE, slide |-> TRUE, vibrato |-> TRUE]}

BeatTexts == {<<>>, <<" ">>, <<"P", ".", "M", ".">>}

GuitarStrings == <<64, 59, 55, 50, 45, 40>>
BassStrings   == <<43, 38, 33, 28>>

Frets == {0, 2}

\* the notes a beat on `strings` may hold: every string and the one beyond
NotesOn(strings, e) ==
    {[string |-> st, value |-> v, effect |-> e] :
        st \in 1..(Len(strings) + 1), v \in Frets}

\* the notes of one beat lie on different strings, in string order
NoteLists(strings, n) ==
    {ns \in [1..n -> NotesOn(strings, NoEffect)] :
        \A i \in 1..(n - 1) : ns[i].string < ns[i + 1].string}

NoKey == [kind |-> "absent"]

KeyNames ==
    { <<"G", "M", "a", "j", "o", "r">>,
      <<"A", "M", "i", "n", "o", "r">>,
      <<"F", "#", "M", "a", "j", "o", "r">>,
      <<"B", "b", "M", "a", "j", "o", "r">>,
      <<"C", "#", "M", "i", "n", "o", "r">>,
      <<"E", "b", "M", "a", "j", "o", "r">>,
      <<"m", "a", "j", "o", "r">> }

KeyInputs ==
    {NoKey}
    \cup {[kind |-> k, sharps |-> sh, is_minor |-> mi] :
             k \in {"pair", "enum"}, sh \in (-MaxSharps)..MaxSharps, mi \in BOOLEAN}
    \cup {[kind |-> "name", name |-> n] : n \in KeyNames}

PlainSong ==
    [title |-> "Untitled", artist |-> "Unknown Artist", album |-> "Unknown Album",
     composer |-> "Unknown Composer", copyright |-> "", notice |-> "",
     instructions |-> "", subtitles |-> <<>>, tempo |-> 120, timeSignature |-> <<>>]

FullSong ==
    [title |-> "Blues", artist |-> "Trio", album |-> "Live", composer |-> "Trad",
     copyright |-> "1999", notice |-> "n", instructions |-> "i",
     subtitles |-> <<"Slow", "Take 2">>, tempo |-> 96,
     timeSignature |-> <<[numerator |-> 12, denominator |-> 8]>>]

\* n strings a fourth apart, string 1 the highest
StringsOf(n) == [i \in 1..n |-> 64 - 5 * (i - 1)]

NoTrack ==
    [isPercussionTrack |-> FALSE, instrument |-> <<>>, strings |-> <<>>,
     name |-> "", number |-> 0, description |-> "", comments |-> ""]

TrackInputs ==
    {[NoTrack EXCEPT !.isPercussionTrack = pf, !.instrument = prog,
                     !.strings = StringsOf(n), !.number = 1] :
        pf \in BOOLEAN,
        prog \in {<<>>} \cup {<<g>> : g \in 0..MaxProgram},
        n \in 0..MaxStrings}

\* the tracks of the songs of Spec: drums, a piano, a guitar and a bass
SongTracks ==
    { [NoTrack EXCEPT !.isPercussionTrack = TRUE, !.instrument = <<0>>,
                      !.strings = GuitarStrings, !.name = "Drums"],
      [NoTrack EXCEPT !.instrument = <<0>>, !.name = "Piano"],
      [NoTrack EXCEPT !.instrument = <<25>>, !.strings = GuitarStrings],
      [NoTrack EXCEPT !.instrument = <<33>>, !.strings = BassStrings,
                      !.name = "Bass", !.description = "fretless",
                      !.comments = "fingers"] }

NoBeat  == [duration |-> NoDuration, notes |-> <<>>, text |-> <<>>, effect |-> NoBeatEffect]

NoRepeat == [present |-> FALSE, closings |-> 0, close |-> FALSE, open |-> FALSE]

NoHeader ==
    [marker |-> "", texts |-> <<<<>>, <<>>, <<>>, <<>>>>, repeatAlternative |-> 0,
     repeat |-> NoRepeat]

NoMeasure == [header |-> NoHeader, voices |-> <<>>]

Dur(d, f) == [present |-> TRUE, value |-> d, isDotted |-> f]

Note(st, v) == [string |-> st, value |-> v, effect |-> NoEffect]

\* five different beats: a rest, a note, a chord the table names, a note with
\* a text (two tokens) and a chord the table does not name
BeatCycle ==
    << [NoBeat EXCEPT !.duration = Dur(4, FALSE)],
       [NoBeat EXCEPT !.duration = Dur(8, FALSE), !.notes = <<Note(1, 0)>>],
       [NoBeat EXCEPT !.duration = Dur(16, FALSE), !.notes = <<Note(3, 0), Note(4, 2)>>],
       [NoBeat EXCEPT !.duration = Dur(8, TRUE), !.notes = <<Note(2, 2)>>,
                      !.text = <<"P", "M">>],
       [NoBeat EXCEPT !.duration = Dur(32, FALSE), !.notes = <<Note(1, 0), Note(2, 0)>>] >>

\* n beats of the cycle, from its k-th on
CycleBeats(n, k) == [i \in 1..n |-> BeatCycle[((i + k - 1) % Len(BeatCycle)) + 1]]

VerseHeader ==
    [NoHeader EXCEPT !.marker = "A",
                     !.texts = <<<<>>, <<" ">>, <<"V", "e", "r", "s", "e", " ", "1">>, <<>>>>]

RepeatHeader ==
    [NoHeader EXCEPT !.repeat = [NoRepeat EXCEPT !.present = TRUE, !.open = TRUE]]

\* the measures SpecMeasure draws from: without a voice, and with a first
\* voice of 0..MaxBeats beats
MeasureInputs ==
    {[header |-> h, voices |-> <<>>] : h \in {NoHeader, VerseHeader, RepeatHeader}}
    \cup {[header |-> h, voices |-> <<CycleBeats(n, k), CycleBeats(1, 0)>>] :
             h \in {NoHeader, VerseHeader}, n \in 0..MaxBeats, k \in 0..2}

\* the measures of the songs of Spec: a short one under a section text and a
\* long one opening a repeat
SongMeasures ==
    { [header |-> VerseHeader, voices |-> <<CycleBeats(2, 1)>>],
      [header |-> RepeatHeader, voices |-> <<CycleBeats(17, 0)>>] }

KeyIdle     == key_info = NoKey /\ key_text = <<"C">> /\ raised = FALSE
SongIdle    == song = PlainSong /\ time_sig = <<4, 4>>
OutIdle     == output = <<>> /\ tune_index = 1
TrackIdle   ==
    tracks_seen = <<>> /\ measures_seen = <<>> /\ track = NoTrack /\ instrument = None
MeasureIdle == measure = NoMeasure /\ measure_count = 0 /\ bar_content = <<>>
BeatIdle    == beat = NoBeat /\ repr = ""
ChordIdle   == pitches = <<>> /\ chord_label = None
PitchIdle   == pitch = 0 /\ abc = <<>>

\* the uploader's files: two that process_guitar_pro converts and one it
\* raises on
NoFile == [parses |-> FALSE, abc |-> ""]

Files ==
    { [parses |-> TRUE, abc |-> "X:1\nK:C"],
      [parses |-> TRUE, abc |-> "X:1\nK:G"],
      [parses |-> FALSE, abc |-> "not a tablature"] }

Prompts == {"What key is this in?", "Describe the intro."}

\* the content of a chunk of the stream; "" for a chunk without content
Chunks == {"", "la"}

\* lines 473-481: session state before the first run, no key, no file
ChatIdle ==
    /\ messages = <<>> /\ abc_notation = None /\ file_processed = FALSE
    /\ show_abc = FALSE
    /\ openai_api_key = FALSE /\ uploaded_file = NoFile /\ event = "none"
    /\ full_response = "" /\ chunks_read = 0 /\ api_messages = <<>>

(***************************************************************************)
(* SpecChord: identify_chord applied to every list of 0..MaxNotes pitches. *)
(***************************************************************************)
ChordInit ==
    /\ pc = "chord_call"
    /\ \E n \in 0..MaxNotes : pitches \in [1..n -> ChordPitches]
    /\ chord_label = None
    /\ KeyIdle /\ SongIdle /\ OutIdle /\ TrackIdle /\ MeasureIdle /\ BeatIdle
    /\ PitchIdle /\ ChatIdle

IdentifyChord ==
    /\ pc = "chord_call"
    /\ chord_label' = identify_chord(pitches)
    /\ pc' = "chord_return"
    /\ UNCHANGED <<pitches, keyVars, songVars, outVars, trackVars, measureVars,
                   beatVars, pitchVars, chatVars>>

ChordNext == IdentifyChord

SpecChord == ChordInit /\ [][ChordNext]_vars

ChordTable ==
    { <<{7}, "5">>,
      <<{4, 7}, "maj">>, <<{3, 7}, "min">>, <<{3, 6}, "dim">>, <<{4, 8}, "aug">>,
      <<{2, 7}, "sus2">>, <<{5, 7}, "sus4">>,
      <<{4, 7, 10}, "7">>, <<{3, 7, 10}, "min7">>, <<{4, 7, 11}, "maj7">>,
      <<{3, 6, 10}, "min7b5">>, <<{3, 6, 9}, "dim7">>, <<{4, 7, 9}, "6">>,
      <<{3, 7, 9}, "min6">> }

SharpNames == <<"C", "C#", "D", "D#", "E", "F", "F#", "G", "G#", "A", "A#", "B">>

\* the label C1 states for the pitches ps
TableLabel(ps) ==
    LET classes == {p % 12 : p \in Range(ps)}
        root    == CHOOSE r \in classes : \A x \in classes : r <= x
        ivs     == {(x - root) % 12 : x \in classes \ {root}}
        hits    == {e \in ChordTable : e[1] = ivs}
    IN  IF hits = {} THEN None
        ELSE SharpNames[root + 1] \o (CHOOSE e \in hits : TRUE)[2]

\* C1: for every list of two or more pitches, identify_chord returns the
\* sharp-spelled name of the numerically lowest pitch class followed by the
\* suffix of the table entry equal to the set of intervals from that root,
\* and None when no entry equals it; {60,64,67} gives Cmaj, {60,63,67} Cmin,
\* {60,67} C5 and {60,61,67} None.
C1_IdentifyChordTable ==
    (pc = "chord_return" /\ Len(pitches) >= 2) =>
        /\ chord_label = TableLabel(pitches)
        /\ Range(pitches) = {60, 64, 67} => chord_label = "Cmaj"
        /\ Range(pitches) = {60, 63, 67} => chord_label = "Cmin"
        /\ Range(pitches) = {60, 67} => chord_label = "C5"
        /\ Range(pitches) = {60, 61, 67} => chord_label = None

\* C1: a minor triad given root last, and a seventh chord, are recognised
C1_Witness ==
    /\ pc = "chord_return"
    /\ pitches = <<67, 63, 60>>
    /\ chord_label = "Cmin"

(***************************************************************************)
(* SpecPitch: midi_to_abc applied to every pitch of 0..MaxPitch.           *)
(***************************************************************************)
MidiPitches == 0..MaxPitch

PitchInit ==
    /\ pc = "pitch_call"
    /\ pitch \in MidiPitches
    /\ abc = <<>>
    /\ KeyIdle /\ SongIdle /\ OutIdle /\ TrackIdle /\ MeasureIdle /\ BeatIdle
    /\ ChordIdle /\ ChatIdle

MidiToAbc ==
    /\ pc = "pitch_call"
    /\ abc' = midi_to_abc(pitch)
    /\ pc' = "pitch_return"
    /\ UNCHANGED <<pitch, keyVars, songVars, outVars, trackVars, measureVars,
                   beatVars, chordVars, chatVars>>

PitchNext == MidiToAbc

SpecPitch == PitchInit /\ [][PitchNext]_vars

NaturalClass(c) ==
    CASE c \in {"C", "c"} -> 0 [] c \in {"D", "d"} -> 2 [] c \in {"E", "e"} -> 4
      [] c \in {"F", "f"} -> 5 [] c \in {"G", "g"} -> 7 [] c \in {"A", "a"} -> 9
      [] c \in {"B", "b"} -> 11

\* a token is an optional "^", a letter A-G or a-g, and then only commas
\* after an uppercase letter or only apostrophes after a lowercase one
WellFormedToken(tok) ==
    LET body == IF tok # <<>> /\ tok[1] = "^" THEN Tail(tok) ELSE tok
    IN  /\ body # <<>>
        /\ body[1] \in {"C", "D", "E", "F", "G", "A", "B",
                        "c", "d", "e", "f", "g", "a", "b"}
        /\ \A i \in 2..Len(body) :
              body[i] = (IF body[1] \in {"C", "D", "E", "F", "G", "A", "B"}
                            THEN "," ELSE "'")

\* the <<pitch class, octave>> a well-formed token denotes
DecodeToken(tok) ==
    LET sharp == tok[1] = "^"
        body  == IF sharp THEN Tail(tok) ELSE tok
        marks == Len(body) - 1
    IN  << NaturalClass(body[1]) + (IF sharp THEN 1 ELSE 0),
           IF body[1] \in {"C", "D", "E", "F", "G", "A", "B"}
              THEN 4 - marks ELSE 5 + marks >>

\* C6: midi_to_abc yields, for every pitch of the MIDI range, a token that
\* reads back as the pitch's class (letter, "^" for a chromatic tone) and its
\* octave pitch div 12 - 1 (uppercase for 4, lowercase for 5, an apostrophe
\* per octave beyond 5, a comma per octave below 4); no other pitch yields
\* the same token.
C6_MidiToAbcRoundTrip ==
    pc = "pitch_return" =>
        /\ WellFormedToken(abc)
        /\ DecodeToken(abc) = <<pitch % 12, (pitch \div 12) - 1>>
        /\ (pitch % 12 \in {1, 3, 6, 8, 10}) <=> (abc[1] = "^")
        /\ \A q \in MidiPitches : midi_to_abc(q) = abc => q = pitch

\* C6: C#6 is a sharp, lowercase and one apostrophe
C6_Witness ==
    /\ pc = "pitch_return"
    /\ pitch = 85
    /\ abc = <<"^", "c", "'">>

(***************************************************************************)
(* SpecBeat: one beat of a guitar or a bass track is transcribed.          *)
(***************************************************************************)
\* a rest reads nothing but its duration; a beat of two or more notes never
\* reads an effect
BeatInit ==
    /\ pc = "beat"
    /\ \E strings \in {GuitarStrings, BassStrings} :
          /\ track = [NoTrack EXCEPT !.strings = strings]
          /\ \E d \in Durations :
                \/ beat = [NoBeat EXCEPT !.duration = d]
                \/ \E e \in NoteEffects, be \in BeatEffects, t \in BeatTexts :
                      \E note \in NotesOn(strings, e) :
                         beat = [duration |-> d, notes |-> <<note>>, text |-> t,
                                 effect |-> be]
                \/ \E n \in 2..MaxBeatNotes, t \in BeatTexts :
                      \E ns \in NoteLists(strings, n) :
                         beat = [duration |-> d, notes |-> ns, text |-> t,
                                 effect |-> NoBeatEffect]
    /\ repr = "" /\ bar_content = <<>>
    /\ tracks_seen = <<>> /\ measures_seen = <<>> /\ instrument = None
    /\ measure = NoMeasure /\ measure_count = 0
    /\ KeyIdle /\ SongIdle /\ OutIdle /\ ChordIdle /\ PitchIdle
    /\ ChatIdle

\* lines 299-313
RestBeat ==
    /\ pc = "beat"
    /\ beat.notes = <<>>
    /\ repr' = "z"
    /\ bar_content' = bar_content \o beat_tokens(track.strings, beat)
    /\ pc' = "beat_done"
    /\ UNCHANGED <<beat, measure, measure_count, keyVars, songVars, outVars,
                   trackVars, chordVars, pitchVars, chatVars>>

\* lines 316-355
ChordBeat ==
    /\ pc = "beat"
    /\ Len(beat.notes) > 1
    /\ pitches' = chord_pitches(track.strings, beat.notes)
    /\ chord_label' = identify_chord(pitches')
    /\ repr' = chord_repr_of(pitches')
    /\ bar_content' = bar_content \o beat_tokens(track.strings, beat)
    /\ pc' = "beat_done"
    /\ UNCHANGED <<beat, measure, measure_count, keyVars, songVars, outVars,
                   trackVars, pitchVars, chatVars>>

\* lines 316-320, 357-416
NoteBeat ==
    /\ pc = "beat"
    /\ Len(beat.notes) = 1
    /\ pitch' = note_pitch(track.strings, beat.notes[1])
    /\ abc' = midi_to_abc(pitch')
    /\ repr' = note_repr_of(track.strings, beat)
    /\ bar_content' = bar_content \o beat_tokens(track.strings, beat)
    /\ pc' = "beat_done"
    /\ UNCHANGED <<beat, measure, measure_count, keyVars, songVars, outVars,
                   trackVars, chordVars, chatVars>>

BeatNext == RestBeat \/ ChordBeat \/ NoteBeat

SpecBeat == BeatInit /\ [][BeatNext]_vars

\* the length suffix C2 states for duration code d and dotted flag f
SuffixTable(d, f) ==
    CASE d \in {0, 1} -> (IF f THEN "24" ELSE "16")
      [] d = 2  -> (IF f THEN "12" ELSE "8")
      [] d = 4  -> (IF f THEN "6" ELSE "4")
      [] d = 8  -> (IF f THEN "3" ELSE "2")
      [] d = 16 -> (IF f THEN "1" ELSE "")
      [] d = 32 -> (IF f THEN "/1" ELSE "/2")
      [] d = 64 -> (IF f THEN "/2" ELSE "/4")

\* C2: the token of every beat (rest, chord or single note) with duration
\* code d and dotted flag f is its token before the length followed by the
\* suffix of m = 16/d (16 for d = 0), times 3/2 when dotted: nothing for
\* m = 1, "/" and the integer part of 1/m for m < 1, the integer part of m
\* for m > 1.
C2_LengthSuffix ==
    (pc = "beat_done" /\ beat.duration.present) =>
        bar_content[Len(bar_content)] =
            repr \o SuffixTable(beat.duration.value, beat.duration.isDotted)

\* C2: a dotted sixteenth chord loses its dot
C2_Witness ==
    /\ pc = "beat_done"
    /\ Len(beat.notes) > 1
    /\ beat.duration = [present |-> TRUE, value |-> 16, isDotted |-> TRUE]
    /\ bar_content[Len(bar_content)] = repr \o "1"

\* C9: a note whose string index exceeds the track's string count has the
\* pitch of its fret alone, in a single-note beat and in a chord beat, where
\* it stays one of the beat's pitches.
C9_BeyondStringsFretAlone ==
    pc = "beat_done" =>
        /\ Len(beat.notes) = 1 =>
              pitch = chord_pitches_open_zero(track.strings, beat.notes)[1]
        /\ Len(beat.notes) > 1 =>
              pitches = chord_pitches_open_zero(track.strings, beat.notes)


(***************************************************************************)
(* SpecKey: the key of the song is resolved and its Key: line written.     *)
(***************************************************************************)
KeyInit ==
    /\ pc = "key"
    /\ key_info \in KeyInputs
    /\ key_text = <<"C">> /\ raised = FALSE
    /\ SongIdle /\ OutIdle /\ TrackIdle /\ MeasureIdle /\ BeatIdle /\ ChordIdle
    /\ PitchIdle /\ ChatIdle

\* lines 15-45
ResolveKey ==
    /\ pc = "key"
    /\ LET r == resolve_key(key_info)
       IN  /\ raised' = r.raised
           /\ key_text' = r.key_text
           /\ pc' = IF r.raised THEN "error" ELSE "key_done"
    /\ UNCHANGED <<key_info, songVars, outVars, trackVars, measureVars, beatVars,
                   chordVars, pitchVars, chatVars>>

\* lines 97-101
KeyLine ==
    /\ pc = "key_done"
    /\ output' = output \o <<key_line(key_text)>>
    /\ pc' = "key_line_done"
    /\ UNCHANGED <<keyVars, songVars, tune_index, trackVars, measureVars, beatVars,
                   chordVars, pitchVars, chatVars>>

KeyNext == ResolveKey \/ KeyLine

SpecKey == KeyInit /\ [][KeyNext]_vars

\* the key names C7 lists, for -7..7 sharps
MajorKeys ==
    <<"Cb", "Gb", "Db", "Ab", "Eb", "Bb", "F", "C", "G", "D", "A", "E", "B", "F#", "C#">>
MinorKeys ==
    <<"Abm", "Ebm", "Bbm", "Fm", "Cm", "Gm", "Dm", "Am", "Em", "Bm", "F#m", "C#m",
      "G#m", "D#m", "A#m">>

NumericKey == key_info.kind \in {"pair", "enum"}

\* C7: without a key signature the resolved key is "C"; for a pair
\* (sharps, isMinor) with sharps in -7..7 it is the entry of the major table
\* when isMinor is false and of the minor table when it is true, the pair
\* (0, false) included: (0, major) gives C, (3, major) A, (2, minor) Bm.
C7_KeyResolution ==
    pc \in {"key_done", "error", "key_line_done"} =>
        /\ key_info.kind = "absent" => (~raised /\ Str(key_text) = "C")
        /\ (NumericKey /\ key_info.sharps \in -7..7) =>
              /\ ~raised
              /\ Str(key_text) = (IF key_info.is_minor
                                     THEN MinorKeys[key_info.sharps + 8]
                                     ELSE MajorKeys[key_info.sharps + 8])
        /\ (NumericKey /\ key_info.sharps = 0 /\ ~key_info.is_minor) =>
              Str(key_text) = "C"
        /\ (NumericKey /\ key_info.sharps = 3 /\ ~key_info.is_minor) =>
              Str(key_text) = "A"
        /\ (NumericKey /\ key_info.sharps = 2 /\ key_info.is_minor) =>
              Str(key_text) = "Bm"

\* C7: the pair (2, minor) has been resolved to Bm
C7_Witness ==
    /\ pc = "key_done"
    /\ key_info = [kind |-> "pair", sharps |-> 2, is_minor |-> TRUE]
    /\ Str(key_text) = "Bm"

\* the representations C8 calls malformed or unrecognised
MalformedKey ==
    \/ (NumericKey /\ key_info.sharps \notin -7..7)
    \/ (key_info.kind = "name"
        /\ \A i \in 1..Len(note_name_list) : ~Contains(key_info.name, note_name_list[i]))

\* C8: for a key that is a pair with sharps outside -7..7, or a name that
\* holds no note name, key resolution raises nothing, the resolved key is
\* "C" and the Key: line reads "Key: C major".
C8_MalformedKeyFallsBackToC ==
    (pc \in {"key_done", "error", "key_line_done"} /\ MalformedKey) =>
        /\ ~raised
        /\ pc # "error"
        /\ Str(key_text) = "C"
        /\ pc = "key_line_done" => output = <<"Key: C major">>

(***************************************************************************)
(* The steps of process_guitar_pro.  The song's tracks and each track's    *)
(* measures are drawn as the loops reach them.                             *)
(***************************************************************************)
\* lines 9-102: key, time signature, legend and song metadata; a KeyError of
\* the key lookup leaves the function
Preamble ==
    /\ pc = "start"
    /\ LET r == resolve_key(key_info)
       IN  IF r.raised THEN
               /\ raised' = TRUE
               /\ pc' = "error"
               /\ UNCHANGED <<key_text, time_sig, output>>
           ELSE
               /\ raised' = FALSE
               /\ key_text' = r.key_text
               /\ time_sig' = resolve_time_signature(song)
               /\ output' = output \o notation_legend
                              \o song_metadata_lines(song, r.key_text,
                                                     resolve_time_signature(song))
               /\ pc' = "tracks"
    /\ UNCHANGED <<key_info, song, tune_index, trackVars, measureVars, beatVars,
                   chordVars, pitchVars, chatVars>>

\* line 177: the loop takes the next track of song.tracks
FetchTrack(tracks) ==
    /\ pc = "tracks"
    /\ Len(tracks_seen) < MaxTracks
    /\ \E t \in tracks :
          /\ track' = [t EXCEPT !.number = Len(tracks_seen) + 1]
          /\ tracks_seen' = Append(tracks_seen, track')
    /\ measures_seen' = Append(measures_seen, <<>>)
    /\ pc' = "track"
    /\ UNCHANGED <<instrument, keyVars, songVars, outVars, measureVars, beatVars,
                   chordVars, pitchVars, chatVars>>

\* lines 178-179
SkipPercussion ==
    /\ pc = "track"
    /\ track.isPercussionTrack
    /\ pc' = "tracks"
    /\ UNCHANGED <<keyVars, songVars, outVars, trackVars, measureVars, beatVars,
                   chordVars, pitchVars, chatVars>>

\* lines 182-188
SkipOther ==
    /\ pc = "track"
    /\ ~track.isPercussionTrack
    /\ ~(is_guitar(track) \/ is_bass(track))
    /\ pc' = "tracks"
    /\ UNCHANGED <<keyVars, songVars, outVars, trackVars, measureVars, beatVars,
                   chordVars, pitchVars, chatVars>>

\* the header numbered by the loop's track_idx + 1 instead of tune_index
AdmitTrack_indexed_by_position ==
    /\ pc = "track"
    /\ ~track.isPercussionTrack
    /\ is_guitar(track) \/ is_bass(track)
    /\ instrument' = instrument_of(track)
    /\ output' = output \o track_header(track, song, key_text, time_sig,
                                        Len(tracks_seen))
    /\ measure_count' = 0
    /\ pc' = "measures"
    /\ UNCHANGED <<tune_index, tracks_seen, measures_seen, track, measure,
                   bar_content, keyVars, songVars, beatVars, chordVars, pitchVars,
                   chatVars>>

\* lines 182-229
AdmitTrack ==
    /\ pc = "track"
    /\ ~track.isPercussionTrack
    /\ is_guitar(track) \/ is_bass(track)
    /\ instrument' = instrument_of(track)
    /\ output' = output \o track_header(track, song, key_text, time_sig, tune_index)
    /\ measure_count' = 0
    /\ pc' = "measures"
    /\ UNCHANGED <<tune_index, tracks_seen, measures_seen, track, measure,
                   bar_content, keyVars, songVars, beatVars, chordVars, pitchVars,
                   chatVars>>

\* lines 231-432: the next measure of track.measures
EmitMeasure(measures, limit) ==
    /\ pc = "measures"
    /\ measure_count < limit
    /\ \E m \in measures :
          /\ measure' = m
          /\ bar_content' = IF m.voices = <<>> THEN bar_content
                            ELSE voice_tokens(track.strings, m.voices[1])
          /\ output' = output \o measure_lines(track.strings, m)
          /\ measures_seen' = [measures_seen EXCEPT ![Len(tracks_seen)] = Append(@, m)]
    /\ measure_count' = measure_count + 1
    /\ UNCHANGED <<pc, tune_index, keyVars, songVars, tracks_seen, track, instrument,
                   beatVars, chordVars, pitchVars, chatVars>>

\* line 435 without line 434
CloseTrack_without_separator ==
    /\ pc = "measures"
    /\ tune_index' = tune_index + 1
    /\ pc' = "tracks"
    /\ UNCHANGED <<output, keyVars, songVars, trackVars, measureVars, beatVars,
                   chordVars, pitchVars, chatVars>>

\* lines 434-435
CloseTrack ==
    /\ pc = "measures"
    /\ output' = Append(output, "")
    /\ tune_index' = tune_index + 1
    /\ pc' = "tracks"
    /\ UNCHANGED <<keyVars, songVars, trackVars, measureVars, beatVars, chordVars,
                   pitchVars, chatVars>>

\* lines 437-439: song.tracks is exhausted
Finish ==
    /\ pc = "tracks"
    /\ pc' = "done"
    /\ UNCHANGED <<keyVars, songVars, outVars, trackVars, measureVars, beatVars,
                   chordVars, pitchVars, chatVars>>

(***************************************************************************)
(* Spec: process_guitar_pro on songs of up to MaxTracks tracks of up to    *)
(* MaxMeasures measures.                                                   *)
(***************************************************************************)
Init ==
    /\ pc = "start"
    /\ key_info \in {NoKey,
                     [kind |-> "enum", sharps |-> 2, is_minor |-> TRUE],
                     [kind |-> "pair", sharps |-> MaxSharps, is_minor |-> FALSE]}
    /\ key_text = <<"C">> /\ raised = FALSE
    /\ song \in {PlainSong, FullSong}
    /\ time_sig = <<4, 4>>
    /\ OutIdle /\ TrackIdle /\ MeasureIdle /\ BeatIdle /\ ChordIdle /\ PitchIdle
    /\ ChatIdle

Next ==
    \/ Preamble
    \/ FetchTrack(SongTracks)
    \/ SkipPercussion
    \/ SkipOther
    \/ AdmitTrack
    \/ EmitMeasure(SongMeasures, MaxMeasures)
    \/ CloseTrack
    \/ Finish

Spec == Init /\ [][Next]_vars

(***************************************************************************)
(* SpecTrack: one track of any program, string count and percussion flag   *)
(* reaches the admission test.                                             *)
(***************************************************************************)
TrackInit ==
    /\ pc = "track"
    /\ track \in TrackInputs
    /\ tracks_seen = <<track>> /\ measures_seen = << <<>> >>
    /\ instrument = None
    /\ KeyIdle /\ SongIdle /\ OutIdle /\ MeasureIdle /\ BeatIdle /\ ChordIdle
    /\ PitchIdle /\ ChatIdle

TrackNext == SkipPercussion \/ SkipOther \/ AdmitTrack

SpecTrack == TrackInit /\ [][TrackNext]_vars

(***************************************************************************)
(* SpecMeasure: one measure of an admitted guitar track is transcribed.    *)
(***************************************************************************)
MeasureInit ==
    /\ pc = "measures"
    /\ track = [NoTrack EXCEPT !.instrument = <<25>>, !.strings = GuitarStrings,
                               !.number = 1]
    /\ tracks_seen = <<track>> /\ measures_seen = << <<>> >>
    /\ instrument = "Guitar"
    /\ KeyIdle /\ SongIdle /\ OutIdle /\ MeasureIdle /\ BeatIdle /\ ChordIdle
    /\ PitchIdle /\ ChatIdle

MeasureNext == EmitMeasure(MeasureInputs, 1) \/ CloseTrack

SpecMeasure == MeasureInit /\ [][MeasureNext]_vars

(***************************************************************************)
(* Track admission and the tune index.                                     *)
(***************************************************************************)
ProgramIn(t, lo, hi) ==
    t.instrument # <<>> /\ t.instrument[1] \in lo..hi

\* the admission condition C3 states
Admissible(t) ==
    /\ ~t.isPercussionTrack
    /\ \/ ProgramIn(t, 24, 31)
       \/ Len(t.strings) >= 6
       \/ ProgramIn(t, 32, 39)
       \/ Len(t.strings) \in 4..5

\* C3: a track is transcribed (its header is emitted) if and only if it is
\* not percussion and its program is in 24..31, or it has 6 or more strings,
\* or its program is in 32..39, or it has 4 or 5 strings; program 28 with no
\* strings is a Guitar, program 90 with 5 strings a Bass.
C3_TrackAdmission ==
    pc \in {"tracks", "measures"} =>
        /\ (pc = "measures") <=> Admissible(track)
        /\ (output # <<>>) <=> Admissible(track)
        /\ track.isPercussionTrack => (pc = "tracks" /\ output = <<>>)
        /\ (~track.isPercussionTrack /\ track.instrument = <<28>>
               /\ track.strings = <<>>)
              => (pc = "measures" /\ instrument = "Guitar")
        /\ (~track.isPercussionTrack /\ track.instrument = <<90>>
               /\ Len(track.strings) = 5)
              => (pc = "measures" /\ instrument = "Bass")

\* C3: program 90 with 5 strings has been admitted as a Bass
C3_Witness ==
    /\ pc = "measures"
    /\ track.instrument = <<90>>
    /\ Len(track.strings) = 5
    /\ instrument = "Bass"
    /\ output # <<>>

\* C4: the label of an admitted track follows its program when the program
\* is in 24..31 (Guitar) or in 32..39 (Bass), whatever the string count; the
\* string count (6+ Guitar, 4..5 Bass) decides otherwise.
C4_ProgramDecidesLabel ==
    pc = "measures" =>
        /\ ProgramIn(track, 24, 31) => instrument = "Guitar"
        /\ ProgramIn(track, 32, 39) => instrument = "Bass"
        /\ (~ProgramIn(track, 24, 31) /\ ~ProgramIn(track, 32, 39)) =>
              /\ Len(track.strings) >= 6 => instrument = "Guitar"
              /\ Len(track.strings) \in 4..5 => instrument = "Bass"

XLine(i) == "X:" \o IntStr(i)

IsXLine(l) == \E i \in 1..(MaxTracks + 1) : l = XLine(i)

\* the tracks enumerated so far whose admission has been decided
DecidedTracks ==
    IF pc = "track" THEN SubSeq(tracks_seen, 1, Len(tracks_seen) - 1)
    ELSE tracks_seen

IsAdmissible(t) == Admissible(t)

AdmittedTracks == SelectSeq(DecidedTracks, IsAdmissible)

TrackLineOf(t, label) ==
    "Track: " \o (IF t.name # "" THEN t.name ELSE "Track " \o IntStr(t.number))
    \o " (" \o label \o ")"

IsTrackLine(l) ==
    \E i \in 1..Len(tracks_seen), label \in {"Guitar", "Bass"} :
        l = TrackLineOf(tracks_seen[i], label)

\* C5, in every state: the X: lines of the output are X:1 .. X:k in this
\* order, k the number of admitted tracks so far, the Track: lines are those
\* of the admitted tracks in source order, and the tune index is the number
\* of closed tracks plus one
TuneIndicesCountAdmitted ==
    pc \notin {"start", "error"} =>
        LET k == Len(AdmittedTracks)
            xs == SelectSeq(output, IsXLine)
            ts == SelectSeq(output, IsTrackLine)
        IN  /\ xs = [i \in 1..k |-> XLine(i)]
            /\ Len(ts) = k
            /\ \A i \in 1..k :
                  ts[i] \in {TrackLineOf(AdmittedTracks[i], "Guitar"),
                             TrackLineOf(AdmittedTracks[i], "Bass")}
            /\ tune_index = (IF pc = "measures" THEN k ELSE k + 1)

\* C5, in every step: a track that is percussion, or neither guitar nor
\* bass, appends no line and leaves the tune index alone
SkippedTrackLeavesNoTrace ==
    (pc = "track" /\ ~Admissible(track)) =>
        (output' = output /\ tune_index' = tune_index)

\* C5: the X: indices of the emitted track blocks are exactly 1..k in source
\* track order, k the number of admitted tracks; a skipped track appends no
\* line to the output and does not advance the tune index.
C5_TuneIndices ==
    [](TuneIndicesCountAdmitted) /\ [][SkippedTrackLeavesNoTrace]_vars

\* C5: a song of a skipped track followed by an admitted one is done, the
\* admitted track being tune 1
C5_Witness ==
    /\ pc = "done"
    /\ Len(tracks_seen) = 2
    /\ ~Admissible(tracks_seen[1])
    /\ Admissible(tracks_seen[2])
    /\ SelectSeq(output, IsXLine) = <<"X:1">>
    /\ tune_index = 2

(***************************************************************************)
(* Line wrapping.                                                          *)
(***************************************************************************)
\* the number of lines C10 states for n tokens
LinesFor(n) == IF n <= 16 THEN 1 ELSE (n + 15) \div 16

\* C10: a measure with a first voice of n tokens emits one line ending " |"
\* when n <= 16; when n > 16 it emits ceil(n/16) lines, each but the last of
\* exactly 16 tokens and ending " \", the last of the remaining 1..16 tokens
\* and ending " |"; the lines hold the measure's tokens in order, each once.
C10_LineWrapping ==
    (pc = "measures" /\ measure_count = 1 /\ measure.voices # <<>>) =>
        LET n    == Len(bar_content)
            k    == LinesFor(n)
            tags == Len(header_tags(measure.header))
        IN  /\ Len(output) = tags + k
            /\ \A i \in 1..k :
                  LET first == 16 * (i - 1) + 1
                      last  == IF i = k THEN n ELSE 16 * i
                  IN  /\ i < k => last - first + 1 = 16
                      /\ (i = k /\ n > 16) => (last - first + 1) \in 1..16
                      /\ output[tags + i] =
                            Join(SubSeq(bar_content, first, last), " ")
                            \o (IF i = k THEN " |" ELSE " \\")

\* C10: a measure of more than 32 tokens has been emitted as three lines
C10_Witness ==
    /\ pc = "measures"
    /\ measure_count = 1
    /\ measure.voices # <<>>
    /\ Len(bar_content) > 32
    /\ Len(output) = 3

(***************************************************************************)
(* The chat layer: the Streamlit script of lines 441-641.  Streamlit runs  *)
(* the whole script again after every interaction with a widget; the state *)
(* that survives from run to run is st.session_state and the widgets'      *)
(* values.  An exchange with the completions API is one run of the script, *)
(* cut at the points where it waits for the stream.                        *)
(***************************************************************************)
\* lines 595-601
system_content(notation) ==
    "You are a helpful music assistant. \n\nHere is the ABC notation of the piece to analyze:\n\n"
    \o notation
    \o "\n\nAnalyze this notation and respond to the user's query. Please do NOT reference the syntax or the ABC notation (e.g.: references to chords like [B,,,^F,,]) in your answer, instead describe them with natural language and proper music theory terminology."

\* line 634
error_reply == "I'm sorry, there was an error analyzing your music. Please try again."

\* lines 519-534: the file in the uploader is converted unless a file has
\* been converted before in this session; a file process_guitar_pro raises
\* on leaves the session as it was
process_upload(key, file, processed, notation) ==
    IF key /\ file # NoFile /\ ~processed /\ file.parses
        THEN [abc_notation |-> file.abc, file_processed |-> TRUE]
        ELSE [abc_notation |-> notation, file_processed |-> processed]

\* the history sent to the API cut down to the prompt just entered
build_api_messages_last_prompt_only(notation, history) ==
    <<[role |-> "system", content |-> system_content(notation)],
      history[Len(history)]>>

\* lines 604-613: the system message, then all conversation history
build_api_messages(notation, history) ==
    <<[role |-> "system", content |-> system_content(notation)]>> \o history

\* lines 473-481
ChatInit ==
    /\ pc = "idle"
    /\ ChatIdle
    /\ KeyIdle /\ SongIdle /\ OutIdle /\ TrackIdle /\ MeasureIdle /\ BeatIdle
    /\ ChordIdle /\ PitchIdle

transcoderVars == <<keyVars, songVars, outVars, trackVars, measureVars, beatVars,
                    chordVars, pitchVars>>

\* line 503 with a key typed in, then the run of the script
EnterApiKey ==
    /\ pc = "idle"
    /\ ~openai_api_key
    /\ openai_api_key' = TRUE
    /\ event' = "key"
    /\ UNCHANGED <<pc, uploaded_file, sessionVars, streamVars, transcoderVars>>

\* line 503 with the key deleted: the uploader of line 508 is not drawn in
\* the run that follows and loses its file
ClearApiKey ==
    /\ pc = "idle"
    /\ openai_api_key
    /\ openai_api_key' = FALSE
    /\ uploaded_file' = NoFile
    /\ event' = "clear_key"
    /\ UNCHANGED <<pc, sessionVars, streamVars, transcoderVars>>

\* lines 508-534: a file is put into the uploader and the script runs
UploadFile ==
    /\ pc = "idle"
    /\ openai_api_key
    /\ \E f \in Files :
          /\ f # uploaded_file
          /\ uploaded_file' = f
          /\ LET r == process_upload(openai_api_key, f, file_processed, abc_notation)
             IN  /\ abc_notation' = r.abc_notation
                 /\ file_processed' = r.file_processed
    /\ event' = "upload"
    /\ UNCHANGED <<pc, openai_api_key, messages, show_abc, streamVars,
                   transcoderVars>>

\* lines 508-519: the file is taken out of the uploader
RemoveFile ==
    /\ pc = "idle"
    /\ openai_api_key
    /\ uploaded_file # NoFile
    /\ uploaded_file' = NoFile
    /\ event' = "remove"
    /\ UNCHANGED <<pc, openai_api_key, sessionVars, streamVars, transcoderVars>>

\* lines 484-485, 513-514: the Reset Chat button, drawn once a file has been
\* converted, calls reset_chat before the script runs again
ResetChat ==
    /\ pc = "idle"
    /\ openai_api_key /\ file_processed
    /\ messages' = <<>>
    /\ LET r == process_upload(openai_api_key, uploaded_file, file_processed,
                               abc_notation)
       IN  /\ abc_notation' = r.abc_notation
           /\ file_processed' = r.file_processed
    /\ event' = "reset"
    /\ UNCHANGED <<pc, openai_api_key, uploaded_file, show_abc, streamVars,
                   transcoderVars>>

\* lines 488-489, 537-544
ToggleAbcView ==
    /\ pc = "idle"
    /\ file_processed
    /\ show_abc' = ~show_abc
    /\ event' = "toggle"
    /\ UNCHANGED <<pc, openai_api_key, uploaded_file, messages, abc_notation,
                   file_processed, streamVars, transcoderVars>>

\* lines 580-622: a prompt is entered, joins the history, and the history is
\* sent to the API
UserPrompt ==
    /\ pc = "idle"
    /\ openai_api_key /\ file_processed
    /\ Len(messages) < 2 * MaxExchanges
    /\ \E prompt \in Prompts :
          /\ messages' = Append(messages, [role |-> "user", content |-> prompt])
          /\ api_messages' = build_api_messages(abc_notation, messages')
    /\ full_response' = ""
    /\ chunks_read' = 0
    /\ event' = "prompt"
    /\ pc' = "streaming"
    /\ UNCHANGED <<openai_api_key, uploaded_file, abc_notation, file_processed,
                   show_abc, transcoderVars>>

\* lines 625-629: a chunk of the stream; one without content is passed over
StreamChunk ==
    /\ pc = "streaming"
    /\ chunks_read < MaxChunks
    /\ \E c \in Chunks :
          full_response' = IF c # "" THEN full_response \o c ELSE full_response
    /\ chunks_read' = chunks_read + 1
    /\ UNCHANGED <<pc, api_messages, sessionVars, widgetVars, transcoderVars>>

\* lines 631, 637: the stream ends and the reply joins the history
AssistantReply ==
    /\ pc = "streaming"
    /\ messages' = Append(messages, [role |-> "assistant", content |-> full_response])
    /\ pc' = "idle"
    /\ UNCHANGED <<abc_notation, file_processed, show_abc, widgetVars, streamVars,
                   transcoderVars>>

\* lines 632-637: the call or the stream raises; the apology joins the history
ApiFailure ==
    /\ pc = "streaming"
    /\ full_response' = error_reply
    /\ messages' = Append(messages, [role |-> "assistant", content |-> error_reply])
    /\ pc' = "idle"
    /\ UNCHANGED <<abc_notation, file_processed, show_abc, widgetVars, chunks_read,
                   api_messages, transcoderVars>>

ChatNext ==
    \/ EnterApiKey
    \/ ClearApiKey
    \/ UploadFile
    \/ RemoveFile
    \/ ResetChat
    \/ ToggleAbcView
    \/ UserPrompt
    \/ StreamChunk
    \/ AssistantReply
    \/ ApiFailure

SpecChat == ChatInit /\ [][ChatNext]_vars

(***************************************************************************)
(* The conversation history.                                               *)
(***************************************************************************)
IsPrefix(a, b) == Len(a) <= Len(b) /\ \A i \in 1..Len(a) : b[i] = a[i]

\* while a call to the API is under way, what was sent is the system message
\* followed by every message of the history, in the history's order
SentMessagesAreHistory ==
    pc = "streaming" =>
        /\ Len(api_messages) = Len(messages) + 1
        /\ api_messages[1] = [role |-> "system",
                              content |-> system_content(abc_notation)]
        /\ \A i \in 1..Len(messages) : api_messages[i + 1] = messages[i]

\* C11: the history is append-only: after every action (a prompt, a reply, a
\* failed call, Reset Chat, an upload) the history before the action is a
\* prefix of the history after it; and the messages sent to the API are the
\* system message followed by the whole history in order.
C11_HistoryAppendOnly ==
    [](SentMessagesAreHistory) /\ [][IsPrefix(messages, messages')]_vars

\* C11 as amended: Reset Chat empties the history; after every other action
\* the history before the action is a prefix of the history after it; and
\* the messages sent to the API are the system message followed by the
\* whole history in order.
C11_AppendOnlyUntilReset ==
    /\ [](SentMessagesAreHistory)
    /\ [][IF event' = "reset" THEN messages' = <<>>
                              ELSE IsPrefix(messages, messages')]_vars

\* C11: the second prompt of a history is on its way to the API with the
\* first exchange before it
C11_Witness ==
    /\ pc = "streaming"
    /\ Len(messages) = 3
    /\ messages[2].role = "assistant"
    /\ api_messages = <<[role |-> "system", content |-> system_content(abc_notation)]>>
                         \o messages

(***************************************************************************)
(* SpecHeader: one measure of an admitted guitar track, its header drawn   *)
(* from every combination of alternative-ending number and repeat          *)
(* metadata, and from every keyword of the section table as the text of    *)
(* each of the four text attributes.                                       *)
(***************************************************************************)
RepeatInputs ==
    {NoRepeat}
    \cup {[present |-> TRUE, closings |-> c, close |-> cl, open |-> op] :
             c \in 0..MaxClosings, cl \in BOOLEAN, op \in BOOLEAN}

TagHeaders ==
    {[NoHeader EXCEPT !.repeatAlternative = a, !.repeat = r] :
        a \in 0..MaxAlternative, r \in RepeatInputs}

Keywords ==
    UNION {Range(section_keywords[i].keywords) : i \in 1..Len(section_keywords)}

\* text k as the j-th of text, direction, annotation, comment
TextAt(k, j) == [i \in 1..4 |-> IF i = j THEN k ELSE <<>>]

KeywordHeaders ==
    {[NoHeader EXCEPT !.texts = TextAt(k, j)] :
        k \in Keywords \cup {<<"r", "i", "f", "f">>}, j \in 1..4}

HeaderMeasures ==
    {[header |-> h, voices |-> <<CycleBeats(2, 0)>>] :
        h \in TagHeaders \cup KeywordHeaders}

HeaderNext == EmitMeasure(HeaderMeasures, 1) \/ CloseTrack

SpecHeader == MeasureInit /\ [][HeaderNext]_vars

\* the measure has been transcribed and its lines are the output
MeasureEmitted == pc = "measures" /\ measure_count = 1

AlternativeTag(n) == "{ALTERNATIVE: " \o IntStr(n) \o "}"
RepeatTimesTag(n) == "{REPEAT: " \o IntStr(n) \o " times}"

AlternativeLines ==
    {i \in 1..Len(output) :
        \E n \in 1..(MaxAlternative + 1) : output[i] = AlternativeTag(n)}

RepeatLines ==
    {i \in 1..Len(output) :
        \/ output[i] \in {"{REPEAT END}", "{REPEAT START}"}
        \/ \E n \in 1..(MaxClosings + 1) : output[i] = RepeatTimesTag(n)}

\* the one tag the priority order alternative count, repeat count or
\* repeat-end, repeat-start picks for the header, <<>> when none applies
PriorityTag(h) ==
    IF h.repeatAlternative # 0 THEN <<AlternativeTag(h.repeatAlternative)>>
    ELSE IF h.repeat.present /\ h.repeat.closings # 0
        THEN <<RepeatTimesTag(h.repeat.closings)>>
    ELSE IF h.repeat.present /\ h.repeat.close THEN <<"{REPEAT END}">>
    ELSE IF h.repeat.present /\ h.repeat.open THEN <<"{REPEAT START}">>
    ELSE <<>>

\* C12: for every measure at most one of {ALTERNATIVE: ...}, {REPEAT END}
\* (or {REPEAT: n times}) and {REPEAT START} is emitted, chosen in the
\* priority order alternative count, repeat-end, repeat-start, also when the
\* header carries both an alternative-ending number and repeat metadata.
C12_RepeatTagsExclusive ==
    MeasureEmitted =>
        /\ Cardinality(AlternativeLines \cup RepeatLines) <= 1
        /\ [i \in 1..Cardinality(AlternativeLines \cup RepeatLines) |->
               output[CHOOSE j \in AlternativeLines \cup RepeatLines : TRUE]]
              = PriorityTag(measure.header)

\* C12 as amended: the three repeat tags are mutually exclusive, at most one
\* of {REPEAT: n times}, {REPEAT END} and {REPEAT START} is emitted for the
\* measure, chosen in the priority order closings count, repeat-end,
\* repeat-start; {ALTERNATIVE: n} is emitted exactly when the header carries
\* an alternative-ending number, whatever the repeat metadata, and before
\* the repeat tag when the header carries both.
C12_RepeatTagChain ==
    MeasureEmitted =>
        LET h == measure.header
        IN  /\ Cardinality(RepeatLines) <= 1
            /\ Cardinality(AlternativeLines) = (IF h.repeatAlternative # 0 THEN 1 ELSE 0)
            /\ \A i \in AlternativeLines : output[i] = AlternativeTag(h.repeatAlternative)
            /\ \A i \in RepeatLines :
                  /\ h.repeat.present
                  /\ output[i] =
                        (IF h.repeat.closings # 0 THEN RepeatTimesTag(h.repeat.closings)
                         ELSE IF h.repeat.close THEN "{REPEAT END}"
                         ELSE "{REPEAT START}")
                  /\ output[i] = "{REPEAT START}" => h.repeat.open
            /\ (h.repeat.present
                /\ (h.repeat.closings # 0 \/ h.repeat.close \/ h.repeat.open))
                  => RepeatLines # {}
            /\ \A i \in AlternativeLines, j \in RepeatLines : i < j

\* C12: a measure that is a first ending and closes the repeat has got both
\* of its tags
C12_Witness ==
    /\ MeasureEmitted
    /\ measure.header.repeatAlternative = 1
    /\ measure.header.repeat.present /\ measure.header.repeat.close
    /\ measure.header.repeat.closings = 0
    /\ SubSeq(output, 1, 2) = <<"{ALTERNATIVE: 1}", "{REPEAT END}">>

(***************************************************************************)
(* The tonic of a key signature given as a symbolic name.                  *)
(***************************************************************************)
MultiCharNames ==
    { <<"F", "#">>, <<"C", "#">>, <<"B", "b">>, <<"E", "b">>, <<"A", "b">>,
      <<"D", "b">>, <<"G", "b">>, <<"C", "b">> }

\* C13: for a key given as a name, the note names are tested in an order in
\* which every multi-character name (F#, C#, Bb, Eb, Ab, Db, Gb, Cb) comes
\* before its one-letter prefix, so a name whose tonic is a multi-character
\* note name resolves to that name and not to its first letter.
C13_MultiCharTonicFirst ==
    (pc \in {"key_done", "key_line_done"} /\ key_info.kind = "name") =>
        \A m \in MultiCharNames :
           (Len(key_info.name) >= 2 /\ SubSeq(key_info.name, 1, 2) = m) =>
              /\ key_text = m
              /\ \A i \in 1..Len(note_name_list), j \in 1..Len(note_name_list) :
                    (note_name_list[j] = m /\ note_name_list[i] = <<m[1]>>) => j < i

(***************************************************************************)
(* The section type chosen for a header text.                              *)
(***************************************************************************)
SectionTag(type_name, k) == "{SECTION: " \o type_name \o " - " \o Str(k) \o "}"

\* C15: every keyword of the section table selects its own section type: for
\* each of the eight types T and each keyword k listed for T, a measure whose
\* header text equals k gets the line {SECTION: T - k}; so each of the eight
\* types is produced by some text.
C15_KeywordSelectsOwnType ==
    MeasureEmitted =>
        \A t \in 1..Len(section_keywords) :
           \A n \in 1..Len(section_keywords[t].keywords), j \in 1..4 :
              LET k == section_keywords[t].keywords[n]
              IN  measure.header.texts = TextAt(k, j)
                     => output[1] = SectionTag(section_keywords[t].type_name, k)

(***************************************************************************)
(* SpecTune: process_guitar_pro on one song's metadata, with up to         *)
(* MaxTracks tracks of up to MaxTuneMeasures measures each.                *)
(***************************************************************************)
TuneInit ==
    /\ pc = "start"
    /\ key_info = [kind |-> "enum", sharps |-> 2, is_minor |-> TRUE]
    /\ key_text = <<"C">> /\ raised = FALSE
    /\ song = FullSong
    /\ time_sig = <<4, 4>>
    /\ OutIdle /\ TrackIdle /\ MeasureIdle /\ BeatIdle /\ ChordIdle /\ PitchIdle
    /\ ChatIdle

\* the drums, the piano and the guitar of SongTracks; a track without a name
\* is named after its position, so two guitars differ in every line that
\* names them
TuneTracks == {t \in SongTracks : t.name # "Bass"}

TuneNext ==
    \/ Preamble
    \/ FetchTrack(TuneTracks)
    \/ SkipPercussion
    \/ SkipOther
    \/ AdmitTrack
    \/ EmitMeasure(SongMeasures, MaxTuneMeasures)
    \/ CloseTrack
    \/ Finish

SpecTune == TuneInit /\ [][TuneNext]_vars

RECURSIVE FlattenLines(_)
FlattenLines(blocks) ==
    IF blocks = <<>> THEN <<>> ELSE Head(blocks) \o FlattenLines(Tail(blocks))

\* the i-th track of the song is the one being transcribed
TrackOpen(i) == i = Len(tracks_seen) /\ pc = "measures"

\* the header block of track i as tune x
HeaderBlock(i, x) == track_header(tracks_seen[i], song, key_text, time_sig, x)

\* the lines of the measures of track i enumerated so far, in source order
MeasureBlock(i) ==
    FlattenLines([k \in 1..Len(measures_seen[i]) |->
                     measure_lines(tracks_seen[i].strings, measures_seen[i][k])])

\* what an admitted track has in the output: header, measures, and once it
\* is closed the separator
TrackBlock(i, x) ==
    HeaderBlock(i, x) \o MeasureBlock(i)
    \o (IF TrackOpen(i) THEN <<>> ELSE <<"">>)

RECURSIVE TuneBlocks(_, _)
\* the blocks of the decided tracks from the i-th on, the next tune being x
TuneBlocks(i, x) ==
    IF i > Len(DecidedTracks) THEN <<>>
    ELSE IF ~Admissible(tracks_seen[i]) THEN TuneBlocks(i + 1, x)
    ELSE TrackBlock(i, x) \o TuneBlocks(i + 1, x + 1)

PreambleLines == notation_legend \o song_metadata_lines(song, key_text, time_sig)

BlankLines == {i \in 1..Len(output) : output[i] = ""}

TrackLines ==
    LET lines == {TrackLineOf(tracks_seen[i], label) :
                     i \in 1..Len(tracks_seen), label \in {"Guitar", "Bass"}}
    IN  {i \in 1..Len(output) : output[i] \in lines}

ClosedTracks ==
    {i \in 1..Len(DecidedTracks) : Admissible(tracks_seen[i]) /\ ~TrackOpen(i)}

\* in every state the output is the preamble followed by one block for each
\* admitted track in source order, and nothing else: header, then the lines
\* of its measures in source order, then the separator once it is closed;
\* the blank lines of the output are the separators of the closed tracks,
\* one each, so headers and measures hold none, and a track being
\* transcribed has its lines last
TrackBlocksInOrder ==
    pc \notin {"start", "error"} =>
        /\ output = PreambleLines \o TuneBlocks(1, 1)
        /\ Cardinality(BlankLines) = Cardinality(ClosedTracks)
        /\ Cardinality(TrackLines) = Len(AdmittedTracks)
        /\ \A i \in 1..Len(tracks_seen) :
              ~Admissible(tracks_seen[i]) => measures_seen[i] = <<>>
        /\ (pc = "measures") =>
              (\A b \in BlankLines, t \in TrackLines : b < Len(output) /\ t <= Len(output))
        /\ (pc \in {"tracks", "track", "done"} /\ AdmittedTracks # <<>>) =>
              output[Len(output)] = ""

\* in every step the track goes not-started -> header-emitted -> measures ->
\* closed and never back, and the output only grows at its end: the header
\* is what admission appends, a measure appends while the track is open,
\* closing appends the one blank line
TrackLifecycleStep ==
    /\ IsPrefix(output, output')
    /\ (pc' = "measures") => pc \in {"track", "measures"}
    /\ (pc = "measures") => pc' \in {"measures", "tracks"}
    /\ (pc = "track" /\ pc' = "measures") =>
          output' = output \o HeaderBlock(Len(tracks_seen), tune_index)
    /\ (pc = "measures" /\ pc' = "measures") =>
          /\ tracks_seen' = tracks_seen
          /\ Len(measures_seen'[Len(tracks_seen)])
                = Len(measures_seen[Len(tracks_seen)]) + 1
    /\ (pc = "measures" /\ pc' = "tracks") => output' = Append(output, "")
    /\ (pc # "measures" /\ pc' # "measures" /\ pc # "start") => output' = output

\* C14: every admitted track goes through not-started -> header-emitted ->
\* measures -> track-closed once and in that order: its header block is
\* appended once before any of its measure lines, its measure lines follow in
\* source measure order, exactly one blank separator line closes it, no line
\* of another track comes between its header and its separator, and the
\* output only ever grows by appending.
C14_TrackLifecycle ==
    [](TrackBlocksInOrder) /\ [][TrackLifecycleStep]_vars

\* C14: a song of two admitted tracks is done, the first with two different
\* measures, and both tracks are closed
C14_Witness ==
    /\ pc = "done"
    /\ Len(AdmittedTracks) = 2
    /\ Admissible(tracks_seen[1])
    /\ Len(measures_seen[1]) = 2
    /\ measures_seen[1][1] # measures_seen[1][2]
    /\ Cardinality(BlankLines) = 2

====
